---- MODULE Spec2Model ----
(***************************************************************************)
(* Transaction requests of py-v-sdk: the canonical signing bytes           *)
(* (data_to_sign), the signature (sign / verify_sig) and the broadcast     *)
(* payload of each TxReq variant.                                          *)
(*                                                                         *)
(* Bytes are sequences over 0..255.  Text is a sequence of code points.    *)
(* A Python int is a sign and a big-endian magnitude without leading       *)
(* zeros, so that 64-bit and wider values are exact.                       *)
(***************************************************************************)
EXTENDS Integers, Sequences, FiniteSets, TLC

VARIABLES
    req,        \* the transaction request object under construction / in use
    err,        \* the exception the last constructor call raised, or "none"
    dts,        \* the result of the last evaluation of req.data_to_sign
    payload,    \* the result of the last to_broadcast_*_payload call
    drawn,      \* the 64-byte blocks os.urandom has returned so far
    signLog,    \* the calls of curve_25519.sign made so far, with their results
    verifyLog,  \* the calls of curve_25519.verify_sig made so far, with results
    acnts,      \* the Account objects that exist, by the name that holds them
    call,       \* the Account method call in progress and where it stands
    node,       \* the node behind the API: what it was handed, its ledger
    propLog,    \* the reads of Account properties made so far, with results
    threads,    \* per thread: the request it holds and what it computed
    heap        \* the value objects that exist, by object identity

acntVars == <<acnts, call, node, propLog>>

threadVars == <<threads, heap>>

vars == <<req, err, dts, payload, drawn, signLog, verifyLog, acntVars, threadVars>>

(***************************************************************************)
(* Results of a call: a value, or the exception it raised.                 *)
(***************************************************************************)
Ok(v) == [exc |-> "none", val |-> v]

Raise(e) == [exc |-> e, val |-> <<>>]

NotRun == [exc |-> "unset", val |-> <<>>]

IsOk(r) == r.exc = "none"

(***************************************************************************)
(* Byte-level helpers.                                                     *)
(***************************************************************************)
Byte == 0..255

Zeros(n) == [i \in 1..n |-> 0]

RECURSIVE StripZeros(_)
StripZeros(b) ==
    IF b = <<>> THEN <<>>
    ELSE IF Head(b) = 0 THEN StripZeros(Tail(b)) ELSE b

LeadingZeros(b) == Len(b) - Len(StripZeros(b))

Nat2(hi, lo) == hi * 256 + lo

(***************************************************************************)
(* Python ints.                                                            *)
(***************************************************************************)
PyInt(neg, mag) == [neg |-> neg, mag |-> mag]

INT_0 == PyInt(FALSE, <<>>)

\* The Python int of a small integer, and back.
RECURSIVE MagOf(_)
MagOf(n) == IF n = 0 THEN <<>> ELSE Append(MagOf(n \div 256), n % 256)

ToPyInt(n) == IF n < 0 THEN PyInt(TRUE, MagOf(0 - n)) ELSE PyInt(FALSE, MagOf(n))

RECURSIVE NatOf(_)
NatOf(mag) ==
    IF mag = <<>> THEN 0
    ELSE NatOf(SubSeq(mag, 1, Len(mag) - 1)) * 256 + mag[Len(mag)]

IntOf(p) == IF p.neg THEN 0 - NatOf(p.mag) ELSE NatOf(p.mag)

(***************************************************************************)
(* struct.pack(">Q", v), struct.pack(">H", n), struct.pack(">B", n):       *)
(* big-endian, fixed width; struct.error when the value does not fit.      *)
(***************************************************************************)
struct_pack_Q(v) ==
    IF v.neg \/ Len(v.mag) > 8
    THEN Raise("struct.error")
    ELSE Ok(Zeros(8 - Len(v.mag)) \o v.mag)

\* Mutant: the 2-byte field is written little-endian ("<H").
Mutant_struct_pack_H(n) ==
    IF n < 0 \/ n > 65535
    THEN Raise("struct.error")
    ELSE Ok(<<n % 256, n \div 256>>)

struct_pack_H(n) ==
    IF n < 0 \/ n > 65535
    THEN Raise("struct.error")
    ELSE Ok(<<n \div 256, n % 256>>)

struct_pack_B(n) ==
    IF n < 0 \/ n > 255
    THEN Raise("struct.error")
    ELSE Ok(<<n>>)

(***************************************************************************)
(* b1 + b2 + ... of byte strings, left to right: the first operand whose   *)
(* evaluation raises ends the expression with that exception.              *)
(***************************************************************************)
RECURSIVE Concat(_)
Concat(parts) ==
    IF parts = <<>> THEN Ok(<<>>)
    ELSE IF ~IsOk(Head(parts)) THEN Head(parts)
    ELSE LET rest == Concat(Tail(parts))
         IN  IF IsOk(rest) THEN Ok(Head(parts).val \o rest.val) ELSE rest

(***************************************************************************)
(* base58.b58encode over the Bitcoin alphabet: the leading zero bytes      *)
(* become '1's, the rest is the number in base 58, most significant digit  *)
(* first.  The result is text (code points of the alphabet's characters).  *)
(***************************************************************************)
B58_ALPHABET ==
    <<49, 50, 51, 52, 53, 54, 55, 56, 57, 65, 66, 67, 68, 69, 70, 71, 72, 74,
      75, 76, 77, 78, 80, 81, 82, 83, 84, 85, 86, 87, 88, 89, 90, 97, 98, 99,
      100, 101, 102, 103, 104, 105, 106, 107, 109, 110, 111, 112, 113, 114,
      115, 116, 117, 118, 119, 120, 121, 122>>

\* One long division of the big-endian number b by 58: <<quotient, remainder>>.
RECURSIVE DivMod58(_, _, _, _)
DivMod58(b, i, rem, q) ==
    IF i > Len(b) THEN <<StripZeros(q), rem>>
    ELSE LET cur == rem * 256 + b[i]
         IN  DivMod58(b, i + 1, cur % 58, Append(q, cur \div 58))

RECURSIVE B58Digits(_, _)
B58Digits(num, acc) ==
    IF num = <<>> THEN acc
    ELSE LET qr == DivMod58(num, 1, 0, <<>>)
         IN  B58Digits(qr[1], <<B58_ALPHABET[qr[2] + 1]>> \o acc)

b58encode(b) ==
    [i \in 1..LeadingZeros(b) |-> B58_ALPHABET[1]] \o B58Digits(StripZeros(b), <<>>)

\* base58.b58decode: the inverse; ValueError on a character outside the
\* alphabet.
B58Index(c) == CHOOSE k \in 0..57 : B58_ALPHABET[k + 1] = c

\* b * 58 + carry on a big-endian byte number, from its last byte to its
\* first; carry stays below 58.
RECURSIVE MulAdd58(_, _, _)
MulAdd58(b, i, carry) ==
    IF carry = 0 /\ i = 0 THEN <<>>
    ELSE IF i = 0 THEN <<carry>>
    ELSE Append(MulAdd58(b, i - 1, (b[i] * 58 + carry) \div 256),
                (b[i] * 58 + carry) % 256)

\* The number the base58 digits s denote, as big-endian bytes; acc is the
\* number of the digits read so far.
RECURSIVE B58Number(_, _)
B58Number(s, acc) ==
    IF Len(acc) >= 0 /\ s = <<>> THEN acc
    ELSE B58Number(Tail(s), MulAdd58(acc, Len(acc), B58Index(Head(s))))

RECURSIVE LeadingOnes(_)
LeadingOnes(s) ==
    IF s # <<>> /\ Head(s) = B58_ALPHABET[1] THEN 1 + LeadingOnes(Tail(s)) ELSE 0

b58decode(s) ==
    IF \E i \in 1..Len(s) : \A k \in 1..58 : B58_ALPHABET[k] # s[i]
    THEN Raise("ValueError")
    ELSE Ok(Zeros(LeadingOnes(s)) \o B58Number(s, <<>>))

(***************************************************************************)
(* The byte encoding of text: UTF-8 for code points below 0x800.           *)
(***************************************************************************)
IsWide(c) == c >= 128

EncodeChar(c) ==
    IF ~IsWide(c) THEN <<c>> ELSE <<192 + (c \div 64), 128 + (c % 64)>>

RECURSIVE EncodeText(_)
EncodeText(t) ==
    IF t = <<>> THEN <<>> ELSE EncodeChar(Head(t)) \o EncodeText(Tail(t))

(***************************************************************************)
(* Primitive value types (module model).  Each constructor validates and   *)
(* raises ValidationError, or returns the object; the object keeps the     *)
(* constructor's argument in .data.                                        *)
(***************************************************************************)
U64_BYTES == 8

MAX_LEN_PREFIX == 65535

Addr_BYTES_LEN == 26

CtrtID_BYTES_LEN == 26

TXID_BYTES_LEN == 32

KEY_BYTES_LEN == 32

IsU64(n) == ~n.neg /\ Len(n.mag) <= U64_BYTES

\* md.VSYS(n): an amount, unsigned 64-bit.
md_VSYS(n) == IF IsU64(n) THEN Ok([data |-> n]) ELSE Raise("ValidationError")

\* md.Fee(n) and its per-kind subclasses: unsigned 64-bit.
md_Fee(n) == IF IsU64(n) THEN Ok([data |-> n]) ELSE Raise("ValidationError")

\* md.VSYSTimestamp(n): unsigned 64-bit nanoseconds.
md_VSYSTimestamp(n) ==
    IF IsU64(n) THEN Ok([data |-> n]) ELSE Raise("ValidationError")

\* md.Str(text): .data is the text, .bytes its byte encoding, .b58_str the
\* base58 text of those bytes.
\* The number of bytes of EncodeText(t).
EncodedLen(t) == Len(t) + Len(SelectSeq(t, IsWide))

md_Str(t) ==
    IF EncodedLen(t) > MAX_LEN_PREFIX
    THEN Raise("ValidationError")
    ELSE Ok([data |-> t])

Str_bytes(s) == EncodeText(s.data)

Str_b58_str(s) == b58encode(Str_bytes(s))

\* md.Bytes(b).b58_str
Bytes_b58_str(b) == b58encode(b)

\* Fixed-length identifiers: .bytes are the raw bytes, .data their base58 text.
FixedBytes(b, n) ==
    IF Len(b) = n THEN Ok([bytes |-> b, data |-> b58encode(b)])
    ELSE Raise("ValidationError")

\* md.Addr: version byte, chain id byte, 20 bytes of public key hash and 4
\* checksum bytes computed from the 22 before them.
ADDR_VER == 5

Addr_BODY_LEN == 22

RECURSIVE ByteSum(_)
ByteSum(b) == IF b = <<>> THEN 0 ELSE Head(b) + ByteSum(Tail(b))

\* The checksum of an address body; the hash is an arithmetic stand-in.
Addr_checksum(body) ==
    <<ByteSum(body) \div 256, ByteSum(body) % 256, body[2], body[Len(body)]>>

\* md.Addr(...): the length, the version and the checksum are validated.
md_Addr(b) ==
    IF /\ Len(b) = Addr_BYTES_LEN
       /\ b[1] = ADDR_VER
       /\ SubSeq(b, Addr_BODY_LEN + 1, Addr_BYTES_LEN)
              = Addr_checksum(SubSeq(b, 1, Addr_BODY_LEN))
    THEN FixedBytes(b, Addr_BYTES_LEN)
    ELSE Raise("ValidationError")

\* The address with the given chain id and public key hash.
Addr_from_hash(chain_id, hash) ==
    LET body == <<ADDR_VER, chain_id>> \o hash
    IN  body \o Addr_checksum(body)

md_CtrtID(b) == FixedBytes(b, CtrtID_BYTES_LEN)

md_TXID(b) == FixedBytes(b, TXID_BYTES_LEN)

\* md.PubKey / md.PriKey and md.KeyPair(pub, pri).
md_Key(b) == FixedBytes(b, KEY_BYTES_LEN)

md_KeyPair(pub, pri) == [pub |-> pub, pri |-> pri]

(***************************************************************************)
(* Collaborators whose serialized form the requests embed.                 *)
(***************************************************************************)
\* ctrt.CtrtMeta / de.DataStack: an opaque, already serialized byte blob.
Blob(b) == [serialized |-> b]

serialize(x) == x.serialized

\* ctrt.Ctrt.FuncIdx: .value is the index, serialized as 2 bytes.
FuncIdx(v) == [value |-> v, serialized |-> <<v \div 256, v % 256>>]

\* dp.DBPutKey.from_str / dp.DBPutData.new: .data is a md.Str, the
\* serialized form is the length-prefixed bytes of the text.
LenPrefixed(b) == <<Len(b) \div 256, Len(b) % 256>> \o b

dp_DBPutKey(t) ==
    LET s == md_Str(t)
    IN  IF IsOk(s)
        THEN Ok([data |-> s.val, serialized |-> LenPrefixed(Str_bytes(s.val))])
        ELSE s

dp_DBPutData(t, typeName) ==
    LET s == md_Str(t)
    IN  IF IsOk(s)
        THEN Ok([data |-> s.val, class_name |-> typeName,
                 serialized |-> LenPrefixed(Str_bytes(s.val))])
        ELSE s

(***************************************************************************)
(* TxType: the one-byte discriminant of each transaction kind.             *)
(***************************************************************************)
GENESIS == 1

PAYMENT == 2

LEASE == 3

LEASE_CANCEL == 4

MINTING == 5

CONTEND_SLOTS == 6

RELEASE_SLOTS == 7

REGISTER_CONTRACT == 8

EXECUTE_CONTRACT_FUNCTION == 9

DB_PUT == 10

TxType_serialize(value) == struct_pack_B(value)

(***************************************************************************)
(* TxReq and its variants.  A request object is a record of the fields its *)
(* constructor assigns, with the class in .kind and the class attribute    *)
(* TX_TYPE.                                                                *)
(***************************************************************************)
FEE_SCALE == 100

NoReq == [kind |-> "none"]

PaymentTxReq_init(recipient, amount, timestamp, attachment, fee) ==
    [kind |-> "PaymentTxReq", TX_TYPE |-> PAYMENT,
     recipient |-> recipient, amount |-> amount, timestamp |-> timestamp,
     attachment |-> attachment, fee |-> fee]

\* Mutant: the timestamp is written after the fee scale, as the other
\* variants do.
Mutant_PaymentTxReq_data_to_sign(self) ==
    Concat(<<
        TxType_serialize(self.TX_TYPE),
        struct_pack_Q(self.amount.data),
        struct_pack_Q(self.fee.data),
        struct_pack_H(FEE_SCALE),
        struct_pack_Q(self.timestamp.data),
        Ok(self.recipient.bytes),
        struct_pack_H(Len(self.attachment.data)),
        Ok(Str_bytes(self.attachment))
    >>)

PaymentTxReq_data_to_sign(self) ==
    Concat(<<
        TxType_serialize(self.TX_TYPE),
        struct_pack_Q(self.timestamp.data),
        struct_pack_Q(self.amount.data),
        struct_pack_Q(self.fee.data),
        struct_pack_H(FEE_SCALE),
        Ok(self.recipient.bytes),
        struct_pack_H(Len(self.attachment.data)),
        Ok(Str_bytes(self.attachment))
    >>)

LeaseTxReq_init(supernode_addr, amount, timestamp, fee) ==
    [kind |-> "LeaseTxReq", TX_TYPE |-> LEASE,
     supernode_addr |-> supernode_addr, amount |-> amount,
     timestamp |-> timestamp, fee |-> fee]

LeaseTxReq_data_to_sign(self) ==
    Concat(<<
        TxType_serialize(self.TX_TYPE),
        Ok(self.supernode_addr.bytes),
        struct_pack_Q(self.amount.data),
        struct_pack_Q(self.fee.data),
        struct_pack_H(FEE_SCALE),
        struct_pack_Q(self.timestamp.data)
    >>)

\* Mutant: the constructor drops the fee it is given and keeps a fee of 0.
Mutant_LeaseCancelTxReq_init(leasing_tx_id, timestamp, fee) ==
    [kind |-> "LeaseCancelTxReq", TX_TYPE |-> LEASE_CANCEL,
     leasing_tx_id |-> leasing_tx_id, timestamp |-> timestamp,
     fee |-> [data |-> INT_0]]

LeaseCancelTxReq_init(leasing_tx_id, timestamp, fee) ==
    [kind |-> "LeaseCancelTxReq", TX_TYPE |-> LEASE_CANCEL,
     leasing_tx_id |-> leasing_tx_id, timestamp |-> timestamp, fee |-> fee]

\* Mutant: the timestamp is written last, after the leasing transaction id.
Mutant_LeaseCancelTxReq_data_to_sign(self) ==
    Concat(<<
        TxType_serialize(self.TX_TYPE),
        struct_pack_Q(self.fee.data),
        struct_pack_H(FEE_SCALE),
        Ok(self.leasing_tx_id.bytes),
        struct_pack_Q(self.timestamp.data)
    >>)

LeaseCancelTxReq_data_to_sign(self) ==
    Concat(<<
        TxType_serialize(self.TX_TYPE),
        struct_pack_Q(self.fee.data),
        struct_pack_H(FEE_SCALE),
        struct_pack_Q(self.timestamp.data),
        Ok(self.leasing_tx_id.bytes)
    >>)

RegCtrtTxReq_init(data_stack, ctrt_meta, timestamp, description, fee) ==
    [kind |-> "RegCtrtTxReq", TX_TYPE |-> REGISTER_CONTRACT,
     data_stack |-> data_stack, ctrt_meta |-> ctrt_meta,
     timestamp |-> timestamp, description |-> description, fee |-> fee]

RegCtrtTxReq_data_to_sign(self) ==
    LET ctrt_meta == serialize(self.ctrt_meta)
        data_stack == serialize(self.data_stack)
    IN  Concat(<<
            TxType_serialize(self.TX_TYPE),
            struct_pack_H(Len(ctrt_meta)),
            Ok(ctrt_meta),
            struct_pack_H(Len(data_stack)),
            Ok(data_stack),
            struct_pack_H(Len(self.description.data)),
            Ok(Str_bytes(self.description)),
            struct_pack_Q(self.fee.data),
            struct_pack_H(FEE_SCALE),
            struct_pack_Q(self.timestamp.data)
        >>)

ExecCtrtFuncTxReq_init(ctrt_id, func_id, data_stack, timestamp, attachment, fee) ==
    [kind |-> "ExecCtrtFuncTxReq", TX_TYPE |-> EXECUTE_CONTRACT_FUNCTION,
     ctrt_id |-> ctrt_id, func_id |-> func_id, data_stack |-> data_stack,
     timestamp |-> timestamp, attachment |-> attachment, fee |-> fee]

ExecCtrtFuncTxReq_data_to_sign(self) ==
    LET data_stack == serialize(self.data_stack)
    IN  Concat(<<
            TxType_serialize(self.TX_TYPE),
            Ok(self.ctrt_id.bytes),
            Ok(serialize(self.func_id)),
            struct_pack_H(Len(data_stack)),
            Ok(data_stack),
            struct_pack_H(Len(self.attachment.data)),
            Ok(Str_bytes(self.attachment)),
            struct_pack_Q(self.fee.data),
            struct_pack_H(FEE_SCALE),
            struct_pack_Q(self.timestamp.data)
        >>)

DBPutTxReq_init(db_key, data, timestamp, fee) ==
    [kind |-> "DBPutTxReq", TX_TYPE |-> DB_PUT,
     db_key |-> db_key, data |-> data, timestamp |-> timestamp, fee |-> fee]

DBPutTxReq_data_to_sign(self) ==
    Concat(<<
        TxType_serialize(self.TX_TYPE),
        Ok(serialize(self.db_key)),
        Ok(serialize(self.data)),
        struct_pack_Q(self.fee.data),
        struct_pack_H(FEE_SCALE),
        struct_pack_Q(self.timestamp.data)
    >>)

\* The data_to_sign property, dispatched on the request's class.
data_to_sign(self) ==
    CASE self.kind = "PaymentTxReq" -> PaymentTxReq_data_to_sign(self)
      [] self.kind = "LeaseTxReq" -> LeaseTxReq_data_to_sign(self)
      [] self.kind = "LeaseCancelTxReq" -> LeaseCancelTxReq_data_to_sign(self)
      [] self.kind = "RegCtrtTxReq" -> RegCtrtTxReq_data_to_sign(self)
      [] self.kind = "ExecCtrtFuncTxReq" -> ExecCtrtFuncTxReq_data_to_sign(self)
      [] self.kind = "DBPutTxReq" -> DBPutTxReq_data_to_sign(self)

(***************************************************************************)
(* The signature primitive (axolotl_curve25519) as curve_25519.py uses it. *)
(* A 64-byte random block is the record of its identity; a signature is    *)
(* the record of what it was computed from, with its length in bytes.      *)
(***************************************************************************)
SIG_BYTES_LEN == 64

RAND_BYTES_LEN == 64

RandBlock(id, n) == [id |-> id, len |-> n]

\* curve.generatePublicKey: an injective map on 32-byte keys, standing for
\* the scalar multiplication of the base point.
curve_generatePublicKey(pri_key) ==
    [i \in 1..Len(pri_key) |-> (pri_key[i] * 3 + 7) % 256]

\* curve.calculateSignature(rand64, pri_key, msg)
curve_calculateSignature(rand64, pri_key, msg) ==
    IF Len(pri_key) # KEY_BYTES_LEN \/ rand64.len # RAND_BYTES_LEN
    THEN Raise("ValueError")
    ELSE Ok([len |-> SIG_BYTES_LEN, pri |-> pri_key, msg |-> msg, rand |-> rand64.id])

\* curve.verifySignature(pub_key, msg, sig)
curve_verifySignature(pub_key, msg, sig) ==
    IF Len(pub_key) # KEY_BYTES_LEN \/ sig.len # SIG_BYTES_LEN
    THEN Raise("ValueError")
    ELSE Ok(/\ Len(sig.pri) = KEY_BYTES_LEN
            /\ curve_generatePublicKey(sig.pri) = pub_key
            /\ sig.msg = msg)

\* os.urandom(n): the blocks a call may return, given those returned so far.
os_urandom(n, pool, returned) == {RandBlock(id, n) : id \in pool \ returned}

gen_pub_key(pri_key) == curve_generatePublicKey(pri_key)

\* Mutant: the random block is drawn once, when the module is loaded, and
\* every call signs with it.
Mutant_sign(pri_key, msg, rand64) ==
    curve_calculateSignature(RandBlock(0, RAND_BYTES_LEN), pri_key, msg)

\* sign(pri_key, msg); rand64 is what its call of os.urandom(64) returned.
sign(pri_key, msg, rand64) == curve_calculateSignature(rand64, pri_key, msg)

verify_sig(pub_key, msg, sig) == curve_verifySignature(pub_key, msg, sig)

\* TxReq.sign(key_pair): the arguments, data_to_sign among them, are
\* evaluated before curve.sign is entered.
TxReq_sign(self, key_pair, rand64) ==
    LET d == data_to_sign(self)
    IN  IF IsOk(d) THEN sign(key_pair.pri.bytes, d.val, rand64) ELSE d

\* md.Bytes(sig).b58_str of a signature.
Sig_b58_str(sig) == [b58_of |-> sig]

(***************************************************************************)
(* The broadcast payloads.  The dict's values are evaluated in order; the  *)
(* only one that can raise is the signature.                               *)
(***************************************************************************)
to_broadcast_payment_payload(self, key_pair, rand64) ==
    LET sig == TxReq_sign(self, key_pair, rand64)
    IN  IF ~IsOk(sig) THEN sig
        ELSE Ok([senderPublicKey |-> key_pair.pub.data,
                 recipient |-> self.recipient.data,
                 amount |-> self.amount.data,
                 fee |-> self.fee.data,
                 feeScale |-> FEE_SCALE,
                 timestamp |-> self.timestamp.data,
                 attachment |-> Str_b58_str(self.attachment),
                 signature |-> Sig_b58_str(sig.val)])

to_broadcast_leasing_payload(self, key_pair, rand64) ==
    LET sig == TxReq_sign(self, key_pair, rand64)
    IN  IF ~IsOk(sig) THEN sig
        ELSE Ok([senderPublicKey |-> key_pair.pub.data,
                 recipient |-> self.supernode_addr.data,
                 amount |-> self.amount.data,
                 fee |-> self.fee.data,
                 feeScale |-> FEE_SCALE,
                 timestamp |-> self.timestamp.data,
                 signature |-> Sig_b58_str(sig.val)])

\* Mutant: the payload of the lease is reused for its cancellation, with
\* the id added.
Mutant_to_broadcast_cancel_payload(self, key_pair, rand64) ==
    LET sig == TxReq_sign(self, key_pair, rand64)
    IN  IF ~IsOk(sig) THEN sig
        ELSE Ok([senderPublicKey |-> key_pair.pub.data,
                 txId |-> self.leasing_tx_id.data,
                 amount |-> INT_0,
                 fee |-> self.fee.data,
                 feeScale |-> FEE_SCALE,
                 timestamp |-> self.timestamp.data,
                 signature |-> Sig_b58_str(sig.val)])

to_broadcast_cancel_payload(self, key_pair, rand64) ==
    LET sig == TxReq_sign(self, key_pair, rand64)
    IN  IF ~IsOk(sig) THEN sig
        ELSE Ok([senderPublicKey |-> key_pair.pub.data,
                 txId |-> self.leasing_tx_id.data,
                 fee |-> self.fee.data,
                 feeScale |-> FEE_SCALE,
                 timestamp |-> self.timestamp.data,
                 signature |-> Sig_b58_str(sig.val)])

to_broadcast_register_payload(self, key_pair, rand64) ==
    LET sig == TxReq_sign(self, key_pair, rand64)
    IN  IF ~IsOk(sig) THEN sig
        ELSE Ok([senderPublicKey |-> key_pair.pub.data,
                 contract |-> Bytes_b58_str(serialize(self.ctrt_meta)),
                 initData |-> Bytes_b58_str(serialize(self.data_stack)),
                 description |-> self.description.data,
                 fee |-> self.fee.data,
                 feeScale |-> FEE_SCALE,
                 timestamp |-> self.timestamp.data,
                 signature |-> Sig_b58_str(sig.val)])

to_broadcast_execute_payload(self, key_pair, rand64) ==
    LET sig == TxReq_sign(self, key_pair, rand64)
    IN  IF ~IsOk(sig) THEN sig
        ELSE Ok([senderPublicKey |-> key_pair.pub.data,
                 contractId |-> self.ctrt_id.data,
                 functionIndex |-> self.func_id.value,
                 functionData |-> Bytes_b58_str(serialize(self.data_stack)),
                 attachment |-> Str_b58_str(self.attachment),
                 fee |-> self.fee.data,
                 feeScale |-> FEE_SCALE,
                 timestamp |-> self.timestamp.data,
                 signature |-> Sig_b58_str(sig.val)])

to_broadcast_put_payload(self, key_pair, rand64) ==
    LET sig == TxReq_sign(self, key_pair, rand64)
    IN  IF ~IsOk(sig) THEN sig
        ELSE Ok([senderPublicKey |-> key_pair.pub.data,
                 dbKey |-> self.db_key.data.data,
                 dataType |-> self.data.class_name,
                 data |-> self.data.data.data,
                 fee |-> self.fee.data,
                 feeScale |-> FEE_SCALE,
                 timestamp |-> self.timestamp.data,
                 signature |-> Sig_b58_str(sig.val)])

\* The to_broadcast_*_payload method of the request's class.
to_broadcast_payload(self, key_pair, rand64) ==
    CASE self.kind = "PaymentTxReq" -> to_broadcast_payment_payload(self, key_pair, rand64)
      [] self.kind = "LeaseTxReq" -> to_broadcast_leasing_payload(self, key_pair, rand64)
      [] self.kind = "LeaseCancelTxReq" -> to_broadcast_cancel_payload(self, key_pair, rand64)
      [] self.kind = "RegCtrtTxReq" -> to_broadcast_register_payload(self, key_pair, rand64)
      [] self.kind = "ExecCtrtFuncTxReq" -> to_broadcast_execute_payload(self, key_pair, rand64)
      [] self.kind = "DBPutTxReq" -> to_broadcast_put_payload(self, key_pair, rand64)

(***************************************************************************)
(* Bounds of the model and the inputs the operations are called with.      *)
(***************************************************************************)
\* The number of distinct 64-byte blocks os.urandom can return in a run.
MaxRand == 2

\* The length of a byte blob / text one byte too long for a 2-byte prefix.
OversizeLen == 65536

RandPool == 1..MaxRand

INT_NEG_1 == PyInt(TRUE, <<1>>)

\* 10000000, the fee of the specification's Payment example
INT_FEE == PyInt(FALSE, <<152, 150, 128>>)

\* 500000000 (5 VSYS)
INT_5_VSYS == PyInt(FALSE, <<29, 205, 101, 0>>)

\* 1690000000000000000
INT_TS == PyInt(FALSE, <<23, 116, 22, 11, 198, 105, 0, 0>>)

\* 2^64 - 1 and 2^64
INT_U64_MAX == PyInt(FALSE, [i \in 1..8 |-> 255])

INT_2_POW_64 == PyInt(FALSE, <<1>> \o Zeros(8))

AmountInputs == {INT_5_VSYS, INT_U64_MAX, INT_NEG_1, INT_2_POW_64}

FeeInputs == {INT_FEE, INT_U64_MAX, INT_NEG_1}

TimestampInputs == {INT_TS, INT_0, INT_2_POW_64}

\* "", "A", "é", "AéB" and a text of OversizeLen characters
TextInputs == {<<>>, <<65>>, <<233>>, <<65, 233, 66>>, [i \in 1..OversizeLen |-> 97]}

\* chain ids: 'T' (test net) and 'M' (main net)
CHAIN_ID_T == 84

CHAIN_ID_M == 77

ADDR_X == Addr_from_hash(CHAIN_ID_T, [i \in 1..20 |-> 16 + i])

ADDR_Y == Addr_from_hash(CHAIN_ID_T, [i \in 1..20 |-> 200 - i])

AddrInputs == {ADDR_X, ADDR_Y, Tail(ADDR_X)}

CTRT_ID_X == <<6, 84>> \o [i \in 1..20 |-> 40 + i] \o <<4, 3, 2, 1>>

TX_ID_X == [i \in 1..32 |-> 3 * i]

BlobInputs == {<<>>, <<1, 2, 3>>, Zeros(OversizeLen)}

FuncIdxInputs == {0, 3}

DataTypeInputs == {"ByteArray"}

PRI_A == [i \in 1..32 |-> i]

PRI_B == [i \in 1..32 |-> 100 + i]

\* a 10-byte private key
PRI_SHORT == [i \in 1..10 |-> 1]

KeyPairOf(pri_key) ==
    md_KeyPair(md_Key(gen_pub_key(pri_key)).val, md_Key(pri_key).val)

KeyPairInputs == {KeyPairOf(PRI_A), KeyPairOf(PRI_B)}

\* The value objects the request constructors are called with: the results
\* of the value types' constructors on the inputs.
AddrArgs == {md_Addr(b) : b \in AddrInputs}

AmountArgs == {md_VSYS(n) : n \in AmountInputs}

FeeArgs == {md_Fee(n) : n \in FeeInputs}

TimestampArgs == {md_VSYSTimestamp(n) : n \in TimestampInputs}

StrArgs == {md_Str(t) : t \in TextInputs}

BlobArgs == {Ok(Blob(b)) : b \in BlobInputs}

SmallBlobArgs == {Ok(Blob(b)) : b \in {c \in BlobInputs : Len(c) <= MAX_LEN_PREFIX}}

TxIdArgs == {md_TXID(TX_ID_X), md_TXID(Tail(TX_ID_X))}

CtrtIdArgs == {md_CtrtID(CTRT_ID_X)}

DBPutKeyArgs == {dp_DBPutKey(t) : t \in TextInputs}

DBPutDataArgs == {dp_DBPutData(t, n) : t \in TextInputs, n \in DataTypeInputs}

FirstExc(args) ==
    LET bad == {i \in 1..Len(args) : ~IsOk(args[i])}
    IN  IF bad = {} THEN "none"
        ELSE args[CHOOSE i \in bad : \A j \in bad : i <= j].exc

(***************************************************************************)
(* The state machine: a request is constructed, serialized, projected to a *)
(* payload (which signs it) and dropped.                                   *)
(***************************************************************************)
Init ==
    /\ req = NoReq
    /\ err = "none"
    /\ dts = NotRun
    /\ payload = NotRun
    /\ drawn = {}
    /\ signLog = <<>>
    /\ verifyLog = <<>>
    /\ acnts = [name \in {"acnt0", "acnt1"} |-> [none |-> TRUE]]
    /\ call = [pc |-> "idle", method |-> "none", self |-> "none",
               args |-> [none |-> TRUE], sent |-> <<>>, res |-> NotRun,
               before |-> [none |-> TRUE]]
    /\ node = [bal |-> <<>>, eff |-> <<>>, leases |-> {}]
    /\ propLog = <<>>
    /\ threads = <<>>
    /\ heap = <<>>

\* A constructor call: the value objects are built first, and the first
\* that fails ends the call with its exception; otherwise __init__ stores
\* them and the object exists.
NewPaymentTxReq ==
    /\ req = NoReq
    /\ \E r \in AddrArgs, a \in AmountArgs, t \in TimestampArgs,
          s \in StrArgs, f \in FeeArgs :
        /\ err' = FirstExc(<<r, a, t, s, f>>)
        /\ req' = IF err' = "none"
                  THEN PaymentTxReq_init(r.val, a.val, t.val, s.val, f.val)
                  ELSE NoReq
    /\ UNCHANGED <<dts, payload, drawn, signLog, verifyLog, acntVars, threadVars>>

NewLeaseTxReq ==
    /\ req = NoReq
    /\ \E r \in AddrArgs, a \in AmountArgs, t \in TimestampArgs, f \in FeeArgs :
        /\ err' = FirstExc(<<r, a, t, f>>)
        /\ req' = IF err' = "none"
                  THEN LeaseTxReq_init(r.val, a.val, t.val, f.val)
                  ELSE NoReq
    /\ UNCHANGED <<dts, payload, drawn, signLog, verifyLog, acntVars, threadVars>>

NewLeaseCancelTxReq ==
    /\ req = NoReq
    /\ \E i \in TxIdArgs, t \in TimestampArgs, f \in FeeArgs :
        /\ err' = FirstExc(<<i, t, f>>)
        /\ req' = IF err' = "none"
                  THEN LeaseCancelTxReq_init(i.val, t.val, f.val)
                  ELSE NoReq
    /\ UNCHANGED <<dts, payload, drawn, signLog, verifyLog, acntVars, threadVars>>

NewRegCtrtTxReq ==
    /\ req = NoReq
    /\ \E d \in SmallBlobArgs, m \in BlobArgs, t \in TimestampArgs,
          s \in StrArgs, f \in FeeArgs :
        /\ err' = FirstExc(<<d, m, t, s, f>>)
        /\ req' = IF err' = "none"
                  THEN RegCtrtTxReq_init(d.val, m.val, t.val, s.val, f.val)
                  ELSE NoReq
    /\ UNCHANGED <<dts, payload, drawn, signLog, verifyLog, acntVars, threadVars>>

NewExecCtrtFuncTxReq ==
    /\ req = NoReq
    /\ \E c \in CtrtIdArgs, i \in FuncIdxInputs, d \in BlobArgs,
          t \in TimestampArgs, s \in StrArgs, f \in FeeArgs :
        /\ err' = FirstExc(<<c, d, t, s, f>>)
        /\ req' = IF err' = "none"
                  THEN ExecCtrtFuncTxReq_init(c.val, FuncIdx(i), d.val,
                                              t.val, s.val, f.val)
                  ELSE NoReq
    /\ UNCHANGED <<dts, payload, drawn, signLog, verifyLog, acntVars, threadVars>>

NewDBPutTxReq ==
    /\ req = NoReq
    /\ \E k \in DBPutKeyArgs, v \in DBPutDataArgs,
          t \in TimestampArgs, f \in FeeArgs :
        /\ err' = FirstExc(<<k, v, t, f>>)
        /\ req' = IF err' = "none"
                  THEN DBPutTxReq_init(k.val, v.val, t.val, f.val)
                  ELSE NoReq
    /\ UNCHANGED <<dts, payload, drawn, signLog, verifyLog, acntVars, threadVars>>

\* req.data_to_sign is read.
EvalDataToSign ==
    /\ req # NoReq
    /\ dts' = data_to_sign(req)
    /\ UNCHANGED <<req, err, payload, drawn, signLog, verifyLog, acntVars, threadVars>>

\* req.to_broadcast_*_payload(key_pair) is called; os.urandom is read only
\* when curve.sign is entered.
ToBroadcastPayload ==
    /\ req # NoReq
    /\ \E kp \in KeyPairInputs : \E r \in os_urandom(RAND_BYTES_LEN, RandPool, drawn) :
        /\ payload' = to_broadcast_payload(req, kp, r)
        /\ drawn' = IF IsOk(data_to_sign(req)) THEN drawn \cup {r.id} ELSE drawn
    /\ UNCHANGED <<req, err, dts, signLog, verifyLog, acntVars, threadVars>>

\* The request goes out of scope.
Discard ==
    /\ req # NoReq
    /\ req' = NoReq
    /\ dts' = NotRun
    /\ payload' = NotRun
    /\ UNCHANGED <<err, drawn, signLog, verifyLog, acntVars, threadVars>>

Next ==
    \/ NewPaymentTxReq
    \/ NewLeaseTxReq
    \/ NewLeaseCancelTxReq
    \/ NewRegCtrtTxReq
    \/ NewExecCtrtFuncTxReq
    \/ NewDBPutTxReq
    \/ EvalDataToSign
    \/ ToBroadcastPayload
    \/ Discard

Spec == Init /\ [][Next]_vars

(***************************************************************************)
(* Direct use of the signing engine: curve_25519.sign and verify_sig are   *)
(* called with arbitrary keys, messages and signatures.                    *)
(***************************************************************************)
PriKeyInputs == {PRI_A, PRI_SHORT}

PubKeyInputs == {gen_pub_key(PRI_A), gen_pub_key(PRI_B), gen_pub_key(PRI_SHORT)}

MsgInputs == {<<>>, <<2>>}

\* A 10-byte string offered as a signature.
SIG_SHORT == [len |-> 10, pri |-> <<>>, msg |-> <<>>, rand |-> 0]

\* byte x with bit b toggled
FlipBitOfByte(x, b) ==
    IF (x \div (2 ^ b)) % 2 = 1 THEN x - 2 ^ b ELSE x + 2 ^ b

\* msg with bit b of its i-th byte toggled
FlipBit(msg, i, b) == [msg EXCEPT ![i] = FlipBitOfByte(msg[i], b)]

SingleBitFlips(msg) == {FlipBit(msg, i, b) : i \in 1..Len(msg), b \in 0..7}

\* The signatures the sign calls so far returned.
Signatures == {signLog[i].res.val : i \in {j \in 1..Len(signLog) : IsOk(signLog[j].res)}}

\* sign(pri_key, msg) is called: it reads os.urandom(64), then signs.
CurveSign ==
    /\ \E k \in PriKeyInputs, m \in MsgInputs :
       \E r \in os_urandom(RAND_BYTES_LEN, RandPool, drawn) :
        /\ signLog' = Append(signLog, [pri_key |-> k, msg |-> m, rand |-> r.id,
                                      res |-> sign(k, m, r)])
        /\ drawn' = drawn \cup {r.id}
    /\ UNCHANGED <<req, err, dts, payload, verifyLog, acntVars, threadVars>>

\* verify_sig(pub_key, msg, sig) is called on a signature sign returned (for
\* the signed message, a single-bit mutation of it or another message) or
\* on a malformed signature.
VerifySig ==
    /\ \E p \in PubKeyInputs, g \in Signatures \cup {SIG_SHORT} :
       \E m \in MsgInputs \cup SingleBitFlips(g.msg) :
        verifyLog' = <<[pub_key |-> p, msg |-> m, sig |-> g,
                        res |-> verify_sig(p, m, g)]>>
    /\ UNCHANGED <<req, err, dts, payload, drawn, signLog, acntVars, threadVars>>

NextSign ==
    \/ CurveSign
    \/ VerifySig

SpecSign == Init /\ [][NextSign]_vars

(***************************************************************************)
(* Accounts (module account).  An object is the record of the attributes   *)
(* that have been assigned on it; reading an attribute that was never      *)
(* assigned raises AttributeError.                                         *)
(***************************************************************************)
\* ch.Chain: .chain_id is the id byte of the chain.
Chain(chain_id) == [chain_id |-> chain_id]

CHAIN_T == Chain(CHAIN_ID_T)

\* addr.must_on(chain)
Addr_must_on(addr, chain) ==
    IF addr.bytes[2] = chain.chain_id THEN Ok(TRUE) ELSE Raise("ChainMismatchError")

\* md.Addr(text): the base58 text is decoded and the bytes are validated.
Addr_of_str(text) ==
    LET b == b58decode(text)
    IN  IF IsOk(b) THEN md_Addr(b.val) ELSE Raise("ValidationError")

\* md.TXID(text)
TXID_of_str(text) ==
    LET b == b58decode(text)
    IN  IF IsOk(b) THEN md_TXID(b.val) ELSE Raise("ValidationError")

\* The hash of a public key an address embeds (a stand-in for the hash).
PUB_KEY_HASH_LEN == 20

PubKeyHash(pub_bytes) == SubSeq(pub_bytes, 1, PUB_KEY_HASH_LEN)

\* md.Addr.from_pub_key(pub_key, chain_id)
Addr_from_pub_key(pub_key, chain_id) ==
    md_Addr(Addr_from_hash(chain_id, PubKeyHash(pub_key.bytes))).val

\* seed.get_acnt_seed_hash(md.Nonce(nonce)).key_pair: the key pair derived
\* from the seed text and the nonce (a stand-in for the hash chain).
Seed_key_pair(seed, nonce) ==
    KeyPairOf([i \in 1..KEY_BYTES_LEN |-> (ByteSum(seed) + 31 * nonce + i) % 256])

\* Wallet(seed)
Wallet_init(seed) == [_seed |-> seed]

None == [none |-> TRUE]

\* Account.__init__(chain, pri_key, pub_key=None)
Account_init(chain, pri_key, pub_key) ==
    LET pub == IF pub_key = None THEN md_Key(gen_pub_key(pri_key.bytes)).val
               ELSE pub_key
    IN  [_chain |-> chain,
         key_pair |-> md_KeyPair(pub, pri_key),
         addr |-> Addr_from_pub_key(pub, chain.chain_id)]

\* Wallet.get_account(chain, nonce)
Wallet_get_account(self, chain, nonce) ==
    LET key_pair == Seed_key_pair(self._seed, nonce)
    IN  Account_init(chain, key_pair.pri, key_pair.pub)

\* Reading attribute name of object obj.
getattr(obj, name) ==
    IF name \in DOMAIN obj THEN Ok(obj[name]) ELSE Raise("AttributeError")

\* The properties Account.wallet, Account.nonce, Account.acnt_seed_hash.
Account_wallet(self) == getattr(self, "_wallet")

Account_nonce(self) == getattr(self, "_nonce")

Account_acnt_seed_hash(self) == getattr(self, "_acnt_seed_hash")

Account_property(self, prop) ==
    CASE prop = "wallet" -> Account_wallet(self)
      [] prop = "nonce" -> Account_nonce(self)
      [] prop = "acnt_seed_hash" -> Account_acnt_seed_hash(self)

\* The default fees and the unit of md.VSYS.for_amount.
VSYS_UNIT == 100000000

PaymentFee_DEFAULT == 10000000

LeasingFee_DEFAULT == 10000000

LeasingCancelFee_DEFAULT == 10000000

DBPutFee_DEFAULT == 100000000

\* md.VSYS.for_amount(amount)
VSYS_for_amount(amount) == md_VSYS(ToPyInt(amount * VSYS_UNIT))

(***************************************************************************)
(* The node behind the API.  It is handed a payload and either raises      *)
(* (network failure, rejection) or books the transaction and answers with  *)
(* the transaction's id.  Balances are kept per address text.              *)
(***************************************************************************)
INIT_BAL == 1000000000

\* The accounts whose keys the node can meet.
KnownAcnts ==
    {Wallet_get_account(Wallet_init(<<115, 101, 101, 100>>), CHAIN_T, n) : n \in {0, 1, 2}}
        \cup {Account_init(CHAIN_T, md_Key([i \in 1..32 |-> 100 + i]).val, None)}

\* The address of the sender of a payload: the address of its public key.
Node_sender(p) ==
    (CHOOSE a \in KnownAcnts : a.key_pair.pub.data = p.senderPublicKey).addr.data

NoAcnt == [none |-> TRUE]

Bal(ledger, a) == IF a \in DOMAIN ledger THEN ledger[a] ELSE INIT_BAL

SetBal(ledger, a, v) == [x \in DOMAIN ledger \cup {a} |-> IF x = a THEN v ELSE ledger[x]]


\* The id the node gives the transaction: derived from its signature.
TxIdOf(sig) == b58encode([i \in 1..TXID_BYTES_LEN |-> (sig.rand * 16 + i) % 256])

\* Whether the node can book the payload handed to the given endpoint.
Node_accepts(n, api, p) ==
    LET a == Node_sender(p)
    IN  CASE api = "broadcast_payment" ->
                Bal(n.bal, a) >= IntOf(p.amount) + IntOf(p.fee)
          [] api = "broadcast_lease" ->
                /\ Bal(n.bal, a) >= IntOf(p.fee)
                /\ Bal(n.eff, a) >= IntOf(p.amount) + IntOf(p.fee)
          [] api = "broadcast_cancel" ->
                /\ Bal(n.bal, a) >= IntOf(p.fee)
                /\ \E l \in n.leases : l.id = p.txId /\ l.lessor = a
          [] OTHER -> Bal(n.bal, a) >= IntOf(p.fee)

\* The node's ledger after it booked the payload.
Node_book(n, api, p) ==
    LET a == Node_sender(p)
        fee == IntOf(p.fee)
    IN  CASE api = "broadcast_payment" ->
                LET b1 == SetBal(n.bal, a, Bal(n.bal, a) - IntOf(p.amount) - fee)
                    e1 == SetBal(n.eff, a, Bal(n.eff, a) - IntOf(p.amount) - fee)
                IN  [n EXCEPT
                        !.bal = SetBal(b1, p.recipient, Bal(b1, p.recipient) + IntOf(p.amount)),
                        !.eff = SetBal(e1, p.recipient, Bal(e1, p.recipient) + IntOf(p.amount))]
          [] api = "broadcast_lease" ->
                LET e1 == SetBal(n.eff, a, Bal(n.eff, a) - IntOf(p.amount) - fee)
                IN  [n EXCEPT
                        !.bal = SetBal(n.bal, a, Bal(n.bal, a) - fee),
                        !.eff = SetBal(e1, p.recipient, Bal(e1, p.recipient) + IntOf(p.amount)),
                        !.leases = n.leases \cup
                            {[id |-> TxIdOf(p.signature.b58_of), lessor |-> a,
                              to |-> p.recipient, amount |-> IntOf(p.amount)]}]
          [] api = "broadcast_cancel" ->
                LET l == CHOOSE l \in n.leases : l.id = p.txId
                    e1 == SetBal(n.eff, a, Bal(n.eff, a) + l.amount - fee)
                IN  [n EXCEPT
                        !.bal = SetBal(n.bal, a, Bal(n.bal, a) - fee),
                        !.eff = SetBal(e1, l.to, Bal(e1, l.to) - l.amount),
                        !.leases = n.leases \ {l}]
          [] OTHER ->
                [n EXCEPT !.bal = SetBal(n.bal, a, Bal(n.bal, a) - fee),
                          !.eff = SetBal(n.eff, a, Bal(n.eff, a) - fee)]

\* The endpoint each Account method hands its payload to.
ApiOf(method) ==
    CASE method \in {"pay", "_pay"} -> "broadcast_payment"
      [] method \in {"lease", "_lease"} -> "broadcast_lease"
      [] method \in {"cancel_lease", "_cancel_lease"} -> "broadcast_cancel"
      [] method = "_register_contract" -> "broadcast_register"
      [] method = "_execute_contract" -> "broadcast_execute"
      [] method \in {"db_put", "_db_put"} -> "broadcasts_put"

(***************************************************************************)
(* Inputs of the Account methods.                                          *)
(***************************************************************************)
\* the seed text "seed"
SEED_A == <<115, 101, 101, 100>>

WALLET == Wallet_init(SEED_A)

NonceInputs == {0, 1, 2}

AcntNames == {"acnt0", "acnt1"}

\* The two accounts the calls below are made on and between: the first of
\* the wallet, and one made from a private key.
ACNT0 == [obj |-> Wallet_get_account(WALLET, CHAIN_T, 0), via |-> "get_account",
          nonce |-> 0]

ACNT1 == [obj |-> Account_init(CHAIN_T, md_Key(PRI_B).val, None), via |-> "init",
          nonce |-> 0]

CallerNames == {"acnt0"}

\* ADDR_Y with its last checksum byte changed, and an address of the main net
ADDR_BAD_SUM == [ADDR_Y EXCEPT ![Addr_BYTES_LEN] = (ADDR_Y[Addr_BYTES_LEN] + 1) % 256]

ADDR_MAIN == Addr_from_hash(CHAIN_ID_M, [i \in 1..20 |-> 60 + i])

RecipientInputs ==
    {b58encode(b) : b \in {ACNT1.obj.addr.bytes, ADDR_BAD_SUM, ADDR_MAIN}}

\* amounts in VSYS, as Account.pay and Account.lease take them
PayAmountInputs == {5, -1}

\* "" and "é"
AttachmentInputs == {<<>>, <<233>>}

\* what md.VSYSTimestamp.now() returns
NowInputs == {INT_TS}

\* an id no transaction has
TX_ID_NONE == b58encode(TX_ID_X)

\* "k" / "v"
DbKeyInputs == {<<107>>}

DbDataInputs == {<<118>>}

\* The requests handed to _register_contract and _execute_contract.
SubmitReqInputs ==
    {RegCtrtTxReq_init(Blob(<<>>), Blob(<<1, 2, 3>>), md_VSYSTimestamp(INT_TS).val,
                       md_Str(<<65>>).val, md_Fee(INT_FEE).val),
     ExecCtrtFuncTxReq_init(md_CtrtID(CTRT_ID_X).val, FuncIdx(3), Blob(<<1, 2, 3>>),
                            md_VSYSTimestamp(INT_TS).val, md_Str(<<>>).val,
                            md_Fee(INT_FEE).val)}

SubmitMethodOf(r) ==
    IF r.kind = "RegCtrtTxReq" THEN "_register_contract" ELSE "_execute_contract"

(***************************************************************************)
(* Account method calls.  A call goes through: the address check (pay and  *)
(* lease), the construction of the request, its projection to a payload    *)
(* (which signs it), the hand-over to the node API, the return.            *)
(***************************************************************************)
IdleCall ==
    [pc |-> "idle", method |-> "none", self |-> "none", args |-> None,
     sent |-> <<>>, res |-> NotRun, before |-> None]

StartCall(pc, method, self, args) ==
    [pc |-> pc, method |-> method, self |-> self, args |-> args,
     sent |-> <<>>, res |-> NotRun, before |-> node]

Self == acnts[call.self].obj

\* Account(...) is built through Wallet.get_account(chain, nonce).
WalletGetAccount ==
    /\ call.pc = "idle"
    /\ \E name \in AcntNames, n \in NonceInputs :
        /\ acnts[name] = NoAcnt
        /\ acnts' = [acnts EXCEPT ![name] =
                        [obj |-> Wallet_get_account(WALLET, CHAIN_T, n),
                         via |-> "get_account", nonce |-> n]]
    /\ UNCHANGED <<req, err, dts, payload, drawn, signLog, verifyLog,
                   call, node, propLog, threadVars>>

\* Account(chain, pri_key): from a private key alone.
NewAccount ==
    /\ call.pc = "idle"
    /\ \E name \in AcntNames :
        /\ acnts[name] = NoAcnt
        /\ acnts' = [acnts EXCEPT ![name] =
                        [obj |-> Account_init(CHAIN_T, md_Key(PRI_B).val, None),
                         via |-> "init", nonce |-> 0]]
    /\ UNCHANGED <<req, err, dts, payload, drawn, signLog, verifyLog,
                   call, node, propLog, threadVars>>

\* acnt.wallet, acnt.nonce or acnt.acnt_seed_hash is read.
ReadProperty ==
    /\ \E name \in AcntNames, prop \in {"wallet", "nonce", "acnt_seed_hash"} :
        /\ acnts[name] # NoAcnt
        /\ propLog' = <<[acnt |-> name, prop |-> prop,
                         res |-> Account_property(acnts[name].obj, prop)]>>
    /\ UNCHANGED <<req, err, dts, payload, drawn, signLog, verifyLog,
                   acnts, call, node, threadVars>>

\* acnt.pay(recipient, amount, attachment, fee) is called.
CallPay ==
    /\ call.pc = "idle"
    /\ req = NoReq
    /\ \E name \in CallerNames, r \in RecipientInputs, a \in PayAmountInputs,
          s \in AttachmentInputs :
        /\ acnts[name] # NoAcnt
        /\ call' = StartCall("validate", "pay", name,
                             [recipient |-> r, amount |-> a, attachment |-> s,
                              fee |-> PaymentFee_DEFAULT])
    /\ UNCHANGED <<req, err, dts, payload, drawn, signLog, verifyLog,
                   acnts, node, propLog, threadVars>>

\* acnt.lease(supernode_addr, amount, fee) is called.
CallLease ==
    /\ call.pc = "idle"
    /\ req = NoReq
    /\ \E name \in CallerNames, r \in RecipientInputs, a \in PayAmountInputs :
        /\ acnts[name] # NoAcnt
        /\ call' = StartCall("validate", "lease", name,
                             [recipient |-> r, amount |-> a,
                              fee |-> LeasingFee_DEFAULT])
    /\ UNCHANGED <<req, err, dts, payload, drawn, signLog, verifyLog,
                   acnts, node, propLog, threadVars>>

\* acnt.cancel_lease(leasing_tx_id, fee) is called, with the id of a lease
\* the node holds or with an id of no transaction.
CallCancelLease ==
    /\ call.pc = "idle"
    /\ req = NoReq
    /\ \E name \in CallerNames, i \in {l.id : l \in node.leases} \cup {TX_ID_NONE} :
        /\ acnts[name] # NoAcnt
        /\ call' = StartCall("build", "cancel_lease", name,
                             [leasing_tx_id |-> i, fee |-> LeasingCancelFee_DEFAULT])
    /\ UNCHANGED <<req, err, dts, payload, drawn, signLog, verifyLog,
                   acnts, node, propLog, threadVars>>

\* acnt.db_put(db_key, data, data_type, fee) is called.
CallDbPut ==
    /\ call.pc = "idle"
    /\ req = NoReq
    /\ \E name \in CallerNames, k \in DbKeyInputs, d \in DbDataInputs :
        /\ acnts[name] # NoAcnt
        /\ call' = StartCall("build", "db_put", name,
                             [db_key |-> k, data |-> d, data_type |-> "ByteArray",
                              fee |-> DBPutFee_DEFAULT])
    /\ UNCHANGED <<req, err, dts, payload, drawn, signLog, verifyLog,
                   acnts, node, propLog, threadVars>>

\* acnt._register_contract(tx.RegCtrtTxReq(...)) or
\* acnt._execute_contract(tx.ExecCtrtFuncTxReq(...)) is called, the request
\* being built in the argument.
CallSubmit ==
    /\ call.pc = "idle"
    /\ req = NoReq
    /\ \E name \in CallerNames, r \in SubmitReqInputs :
        /\ acnts[name] # NoAcnt
        /\ req' = r
        /\ call' = StartCall("project", SubmitMethodOf(r), name, None)
    /\ UNCHANGED <<err, dts, payload, drawn, signLog, verifyLog,
                   acnts, node, propLog, threadVars>>

\* Mutant: the address is built but not held against the account's chain.
Mutant_ValidateAddr ==
    /\ call.pc = "validate"
    /\ LET a == Addr_of_str(call.args.recipient)
       IN  call' = IF IsOk(a) THEN [call EXCEPT !.pc = "build"]
                   ELSE [call EXCEPT !.pc = "return", !.res = a]
    /\ UNCHANGED <<req, err, dts, payload, drawn, signLog, verifyLog,
                   acnts, node, propLog, threadVars>>

\* md.Addr(recipient) and .must_on(self.chain), the first two statements of
\* pay and lease: an exception ends the call.
ValidateAddr ==
    /\ call.pc = "validate"
    /\ LET a == Addr_of_str(call.args.recipient)
           m == IF IsOk(a) THEN Addr_must_on(a.val, Self._chain) ELSE a
       IN  call' = IF IsOk(m) THEN [call EXCEPT !.pc = "build"]
                   ELSE [call EXCEPT !.pc = "return", !.res = m]
    /\ UNCHANGED <<req, err, dts, payload, drawn, signLog, verifyLog,
                   acnts, node, propLog, threadVars>>

\* Mutant: pay takes its amount for a number of the smallest unit.
Mutant_BuiltReq(method, args, now) ==
    CASE method = "pay" ->
            LET rcpt_md == Addr_of_str(args.recipient)
                amount_md == md_VSYS(ToPyInt(args.amount))
                ts_md == md_VSYSTimestamp(now)
                att_md == md_Str(args.attachment)
                fee_md == md_Fee(ToPyInt(args.fee))
                exc == FirstExc(<<rcpt_md, amount_md, ts_md, att_md, fee_md>>)
            IN  IF exc # "none" THEN Raise(exc)
                ELSE Ok(PaymentTxReq_init(rcpt_md.val, amount_md.val, ts_md.val,
                                          att_md.val, fee_md.val))
      [] method = "lease" ->
            LET addr_md == Addr_of_str(args.recipient)
                amount_md == VSYS_for_amount(args.amount)
                ts_md == md_VSYSTimestamp(now)
                fee_md == md_Fee(ToPyInt(args.fee))
                exc == FirstExc(<<addr_md, amount_md, ts_md, fee_md>>)
            IN  IF exc # "none" THEN Raise(exc)
                ELSE Ok(LeaseTxReq_init(addr_md.val, amount_md.val, ts_md.val,
                                        fee_md.val))
      [] method = "cancel_lease" ->
            LET txid_md == TXID_of_str(args.leasing_tx_id)
                ts_md == md_VSYSTimestamp(now)
                fee_md == md_Fee(ToPyInt(args.fee))
                exc == FirstExc(<<txid_md, ts_md, fee_md>>)
            IN  IF exc # "none" THEN Raise(exc)
                ELSE Ok(LeaseCancelTxReq_init(txid_md.val, ts_md.val, fee_md.val))
      [] method = "db_put" ->
            LET key_md == dp_DBPutKey(args.db_key)
                data_md == dp_DBPutData(args.data, args.data_type)
                ts_md == md_VSYSTimestamp(now)
                fee_md == md_Fee(ToPyInt(args.fee))
                exc == FirstExc(<<key_md, data_md, ts_md, fee_md>>)
            IN  IF exc # "none" THEN Raise(exc)
                ELSE Ok(DBPutTxReq_init(key_md.val, data_md.val, ts_md.val,
                                        fee_md.val))

\* The request the method builds from its arguments: the value objects in
\* the order of the keyword arguments, then the constructor.
BuiltReq(method, args, now) ==
    CASE method = "pay" ->
            LET rcpt_md == Addr_of_str(args.recipient)
                amount_md == VSYS_for_amount(args.amount)
                ts_md == md_VSYSTimestamp(now)
                att_md == md_Str(args.attachment)
                fee_md == md_Fee(ToPyInt(args.fee))
                exc == FirstExc(<<rcpt_md, amount_md, ts_md, att_md, fee_md>>)
            IN  IF exc # "none" THEN Raise(exc)
                ELSE Ok(PaymentTxReq_init(rcpt_md.val, amount_md.val, ts_md.val,
                                          att_md.val, fee_md.val))
      [] method = "lease" ->
            LET addr_md == Addr_of_str(args.recipient)
                amount_md == VSYS_for_amount(args.amount)
                ts_md == md_VSYSTimestamp(now)
                fee_md == md_Fee(ToPyInt(args.fee))
                exc == FirstExc(<<addr_md, amount_md, ts_md, fee_md>>)
            IN  IF exc # "none" THEN Raise(exc)
                ELSE Ok(LeaseTxReq_init(addr_md.val, amount_md.val, ts_md.val,
                                        fee_md.val))
      [] method = "cancel_lease" ->
            LET txid_md == TXID_of_str(args.leasing_tx_id)
                ts_md == md_VSYSTimestamp(now)
                fee_md == md_Fee(ToPyInt(args.fee))
                exc == FirstExc(<<txid_md, ts_md, fee_md>>)
            IN  IF exc # "none" THEN Raise(exc)
                ELSE Ok(LeaseCancelTxReq_init(txid_md.val, ts_md.val, fee_md.val))
      [] method = "db_put" ->
            LET key_md == dp_DBPutKey(args.db_key)
                data_md == dp_DBPutData(args.data, args.data_type)
                ts_md == md_VSYSTimestamp(now)
                fee_md == md_Fee(ToPyInt(args.fee))
                exc == FirstExc(<<key_md, data_md, ts_md, fee_md>>)
            IN  IF exc # "none" THEN Raise(exc)
                ELSE Ok(DBPutTxReq_init(key_md.val, data_md.val, ts_md.val,
                                        fee_md.val))

\* tx.XxxTxReq(...) in the argument of self._xxx(...).
BuildReq ==
    /\ call.pc = "build"
    /\ \E now \in NowInputs :
        LET b == BuiltReq(call.method, call.args, now)
        IN  /\ req' = IF IsOk(b) THEN b.val ELSE NoReq
            /\ call' = IF IsOk(b) THEN [call EXCEPT !.pc = "project"]
                       ELSE [call EXCEPT !.pc = "return", !.res = b]
    /\ UNCHANGED <<err, dts, payload, drawn, signLog, verifyLog,
                   acnts, node, propLog, threadVars>>

\* Mutant: signing stamps the request with the fee it was signed for, in
\* the timestamp field.
Mutant_Project ==
    /\ call.pc = "project"
    /\ \E r \in os_urandom(RAND_BYTES_LEN, RandPool, drawn) :
        LET p == to_broadcast_payload(req, Self.key_pair, r)
        IN  /\ drawn' = IF IsOk(data_to_sign(req)) THEN drawn \cup {r.id} ELSE drawn
            /\ payload' = p
            /\ req' = [req EXCEPT !.timestamp = req.fee]
            /\ call' = IF IsOk(p) THEN [call EXCEPT !.pc = "broadcast"]
                       ELSE [call EXCEPT !.pc = "return", !.res = p]
    /\ UNCHANGED <<err, dts, signLog, verifyLog, acnts, node, propLog, threadVars>>

\* req.to_broadcast_xxx_payload(self.key_pair), the argument of the API
\* call; it signs the request.  An exception leaves the method.
Project ==
    /\ call.pc = "project"
    /\ \E r \in os_urandom(RAND_BYTES_LEN, RandPool, drawn) :
        LET p == to_broadcast_payload(req, Self.key_pair, r)
        IN  /\ drawn' = IF IsOk(data_to_sign(req)) THEN drawn \cup {r.id} ELSE drawn
            /\ payload' = p
            /\ call' = IF IsOk(p) THEN [call EXCEPT !.pc = "broadcast"]
                       ELSE [call EXCEPT !.pc = "return", !.res = p]
    /\ UNCHANGED <<req, err, dts, signLog, verifyLog, acnts, node, propLog, threadVars>>

\* The node API's answer to a payload: the response of the node that booked
\* it, or the exception the API call raised.
Node_answer(ok, p, e) ==
    IF ok THEN Ok([id |-> TxIdOf(p.signature.b58_of)]) ELSE Raise(e)

\* Mutant: a failure of the node API is caught, the payload is handed over
\* a second time and an error response is returned.
Mutant_Broadcast ==
    /\ call.pc = "broadcast"
    /\ LET api == ApiOf(call.method)
       IN  \E ok \in {b \in BOOLEAN : b => Node_accepts(node, api, payload.val)},
              e \in {"NodeError", "NetworkError"} :
            LET h == [api |-> api, payload |-> payload.val, req |-> req,
                      answer |-> Node_answer(ok, payload.val, e)]
            IN  /\ node' = IF ok THEN Node_book(node, api, payload.val) ELSE node
                /\ call' = [call EXCEPT
                                !.pc = "return",
                                !.sent = IF ok THEN Append(call.sent, h)
                                         ELSE Append(Append(call.sent, h), h),
                                !.res = IF ok THEN h.answer ELSE Ok([error |-> e])]
    /\ UNCHANGED <<req, err, dts, payload, drawn, signLog, verifyLog,
                   acnts, propLog, threadVars>>

\* await self.api.xxx.broadcast_xxx(payload): the payload is handed to the
\* node API, which answers or raises; the answer is what the method
\* returns, and an exception leaves the method as it is.
Broadcast ==
    /\ call.pc = "broadcast"
    /\ LET api == ApiOf(call.method)
       IN  \E ok \in {b \in BOOLEAN : b => Node_accepts(node, api, payload.val)},
              e \in {"NodeError", "NetworkError"} :
            LET h == [api |-> api, payload |-> payload.val, req |-> req,
                      answer |-> Node_answer(ok, payload.val, e)]
            IN  /\ node' = IF ok THEN Node_book(node, api, payload.val) ELSE node
                /\ call' = [call EXCEPT
                                !.pc = "return",
                                !.sent = Append(call.sent, h),
                                !.res = h.answer]
    /\ UNCHANGED <<req, err, dts, payload, drawn, signLog, verifyLog,
                   acnts, propLog, threadVars>>

\* logger.debug(data); return data - or the exception leaves the method.
\* The request and the payload were temporaries of the call.
Return ==
    /\ call.pc = "return"
    /\ call' = IdleCall
    /\ req' = NoReq
    /\ dts' = NotRun
    /\ payload' = NotRun
    /\ UNCHANGED <<err, drawn, signLog, verifyLog, acnts, node, propLog, threadVars>>

\* The accounts exist; nothing was called yet.
InitAcnt ==
    /\ req = NoReq
    /\ err = "none"
    /\ dts = NotRun
    /\ payload = NotRun
    /\ drawn = {}
    /\ signLog = <<>>
    /\ verifyLog = <<>>
    /\ acnts = [name \in AcntNames |-> IF name = "acnt0" THEN ACNT0 ELSE ACNT1]
    /\ call = IdleCall
    /\ node = [bal |-> <<>>, eff |-> <<>>, leases |-> {}]
    /\ propLog = <<>>
    /\ threads = <<>>
    /\ heap = <<>>

NextAcnt ==
    \/ CallPay
    \/ CallLease
    \/ CallCancelLease
    \/ CallDbPut
    \/ CallSubmit
    \/ ValidateAddr
    \/ BuildReq
    \/ Project
    \/ Broadcast
    \/ Return
    \/ EvalDataToSign

SpecAcnt == InitAcnt /\ [][NextAcnt]_vars

(***************************************************************************)
(* Accounts are made and their properties read.                            *)
(***************************************************************************)
NextProps ==
    \/ WalletGetAccount
    \/ NewAccount
    \/ ReadProperty

SpecProps == Init /\ [][NextProps]_vars

(***************************************************************************)
(* Requests built, serialized and signed by several threads.  Value        *)
(* objects live in a heap and a request holds references to them, so that  *)
(* two requests holding one object differ from two requests holding equal  *)
(* objects.  The default values of the constructors' parameters are        *)
(* evaluated once, when the def statement is executed: heap objects that   *)
(* exist before any request.                                               *)
(***************************************************************************)
ExecCtrtFee_DEFAULT == 30000000

\* The objects made by the default expressions md.Str() and md.PaymentFee()
\* of PaymentTxReq.__init__ and md.Str() and md.ExecCtrtFee() of
\* ExecCtrtFuncTxReq.__init__, in the order the module defines them.
DefaultHeap ==
    <<md_Str(<<>>).val, md_Fee(ToPyInt(PaymentFee_DEFAULT)).val,
      md_Str(<<>>).val, md_Fee(ToPyInt(ExecCtrtFee_DEFAULT)).val>>

\* The reference a constructor's parameter holds when the argument is left
\* out.
DefaultRef(kind, param) ==
    CASE kind = "PaymentTxReq" /\ param = "attachment" -> 1
      [] kind = "PaymentTxReq" /\ param = "fee" -> 2
      [] kind = "ExecCtrtFuncTxReq" /\ param = "attachment" -> 3
      [] kind = "ExecCtrtFuncTxReq" /\ param = "fee" -> 4

ThreadIds == {"t1", "t2"}

IdleThread == [pc |-> "idle"]

\* What a thread passes for the attachment and the fee: nothing, or an
\* object it has just made.
OptAttachmentArgs == {None, md_Str(<<65>>).val}

OptFeeArgs == {None, md_Fee(INT_FEE).val}

\* The request of the given class with the given attachment and fee
\* objects, the other fields being the thread's own.
ThreadReq(kind, attachment, fee) ==
    IF kind = "PaymentTxReq"
    THEN PaymentTxReq_init(md_Addr(ADDR_X).val, md_VSYS(INT_5_VSYS).val,
                           md_VSYSTimestamp(INT_TS).val, attachment, fee)
    ELSE ExecCtrtFuncTxReq_init(md_CtrtID(CTRT_ID_X).val, FuncIdx(3), Blob(<<1, 2, 3>>),
                                md_VSYSTimestamp(INT_TS).val, attachment, fee)

\* The request a thread holds, with the objects its references lead to.
ReqOf(t) == ThreadReq(t.kind, heap[t.attachment], heap[t.fee])

\* The same request built alone: every argument left out is its default
\* expression's value.
ReqAlone(t) ==
    ThreadReq(t.kind,
              IF t.args.attachment = None THEN md_Str(<<>>).val ELSE t.args.attachment,
              IF t.args.fee # None THEN t.args.fee
              ELSE IF t.kind = "PaymentTxReq" THEN md_Fee(ToPyInt(PaymentFee_DEFAULT)).val
              ELSE md_Fee(ToPyInt(ExecCtrtFee_DEFAULT)).val)

\* A thread constructs a request; each argument it passes is a new object.
ThreadBuild ==
    /\ \E id \in ThreadIds, kind \in {"PaymentTxReq", "ExecCtrtFuncTxReq"},
          att \in OptAttachmentArgs, fee \in OptFeeArgs :
        LET h1 == IF att = None THEN heap ELSE Append(heap, att)
            h2 == IF fee = None THEN h1 ELSE Append(h1, fee)
        IN  /\ threads[id].pc = "idle"
            /\ heap' = h2
            /\ threads' = [threads EXCEPT ![id] =
                    [pc |-> "built", kind |-> kind,
                     args |-> [attachment |-> att, fee |-> fee],
                     attachment |-> IF att = None THEN DefaultRef(kind, "attachment")
                                    ELSE Len(h1),
                     fee |-> IF fee = None THEN DefaultRef(kind, "fee") ELSE Len(h2),
                     dts |-> NotRun, payload |-> NotRun]]
    /\ UNCHANGED <<req, err, dts, payload, drawn, signLog, verifyLog, acntVars>>

\* A thread reads data_to_sign of its request.
ThreadDataToSign ==
    /\ \E id \in ThreadIds :
        /\ threads[id].pc = "built"
        /\ threads' = [threads EXCEPT ![id].pc = "serialized",
                                      ![id].dts = data_to_sign(ReqOf(threads[id]))]
    /\ UNCHANGED <<req, err, dts, payload, drawn, signLog, verifyLog, acntVars, heap>>

\* A thread signs its request and projects it to its payload.
ThreadSign ==
    /\ \E id \in ThreadIds, r \in os_urandom(RAND_BYTES_LEN, RandPool, drawn) :
        /\ threads[id].pc = "serialized"
        /\ drawn' = drawn \cup {r.id}
        /\ threads' = [threads EXCEPT
                ![id].pc = "signed",
                ![id].rand = r,
                ![id].payload = to_broadcast_payload(ReqOf(threads[id]), KeyPairOf(PRI_A), r)]
    /\ UNCHANGED <<req, err, dts, payload, signLog, verifyLog, acntVars, heap>>

\* The module is loaded: the default objects exist, no thread holds a request.
InitThreads ==
    /\ req = NoReq
    /\ err = "none"
    /\ dts = NotRun
    /\ payload = NotRun
    /\ drawn = {}
    /\ signLog = <<>>
    /\ verifyLog = <<>>
    /\ acnts = [name \in AcntNames |-> NoAcnt]
    /\ call = IdleCall
    /\ node = [bal |-> <<>>, eff |-> <<>>, leases |-> {}]
    /\ propLog = <<>>
    /\ threads = [id \in ThreadIds |-> IdleThread]
    /\ heap = DefaultHeap

NextThreads ==
    \/ ThreadBuild
    \/ ThreadDataToSign
    \/ ThreadSign

SpecThreads == InitThreads /\ [][NextThreads]_vars

(***************************************************************************)
(* Properties.  The layout helpers below read signing bytes the way the    *)
(* node does: by position.                                                 *)
(***************************************************************************)
\* The w-byte big-endian form of a non-negative magnitude.
BE(mag, w) == Zeros(w - Len(mag)) \o mag

\* The value of the 8-byte big-endian field of b that starts at position p.
U64At(b, p) == StripZeros(SubSeq(b, p, p + 7))

\* The value of the 2-byte big-endian field of b that starts at position p.
U16At(b, p) == Nat2(b[p], b[p + 1])

U16(n) == <<n \div 256, n % 256>>

\* The signing bytes of the specification's Payment example: recipient
\* ADDR_X, amount 500000000, timestamp 1690000000000000000, no attachment,
\* fee 10000000.
PaymentExampleBytes ==
    <<2, 23, 116, 22, 11, 198, 105, 0, 0, 0, 0, 0, 0, 29, 205, 101, 0,
      0, 0, 0, 0, 0, 152, 150, 128, 0, 100,
      5, 84, 17, 18, 19, 20, 21, 22, 23, 24, 25, 26, 27, 28, 29, 30, 31, 32,
      33, 34, 35, 36, 2, 107, 84, 36, 0, 0>>

IsPaymentExample(r) ==
    /\ r.kind = "PaymentTxReq"
    /\ r.recipient.bytes = ADDR_X
    /\ r.amount.data = INT_5_VSYS
    /\ r.timestamp.data = INT_TS
    /\ r.attachment.data = <<>>
    /\ r.fee.data = INT_FEE

\* C1: a Payment request's data_to_sign is the byte 0x02, the timestamp,
\* the amount and the fee as 8 bytes big-endian each, 0x0064, the raw
\* recipient address, the attachment's length as 2 bytes big-endian and
\* the attachment's bytes, in this order and nothing else; with a 26-byte
\* address and an empty attachment it is 55 bytes long and ends in 0x0000,
\* and the specification's example serializes to exactly its 55 bytes.
C1_PaymentLayout ==
    (req.kind = "PaymentTxReq" /\ dts # NotRun) =>
        /\ IsOk(dts)
        /\ LET b == dts.val
               a == Len(req.recipient.bytes)
           IN  /\ b[1] = 2
               /\ U64At(b, 2) = req.timestamp.data.mag
               /\ U64At(b, 10) = req.amount.data.mag
               /\ U64At(b, 18) = req.fee.data.mag
               /\ SubSeq(b, 26, 27) = <<0, 100>>
               /\ SubSeq(b, 28, 27 + a) = req.recipient.bytes
               /\ U16At(b, 28 + a) = Len(req.attachment.data)
               /\ SubSeq(b, 30 + a, Len(b)) = Str_bytes(req.attachment)
               /\ (a = 26 /\ req.attachment.data = <<>>) =>
                      (Len(b) = 55 /\ SubSeq(b, 54, 55) = <<0, 0>>)
               /\ IsPaymentExample(req) => b = PaymentExampleBytes

\* Witness of C1: the specification's example has been serialized.
C1_Witness ==
    /\ req.kind = "PaymentTxReq"
    /\ IsPaymentExample(req)
    /\ IsOk(dts)
    /\ Len(dts.val) = 55

\* C2: for Lease, LeaseCancel, RegisterContract, ExecuteContractFunction
\* and DBPut, data_to_sign is the discriminant byte (3, 4, 8, 9, 10) and
\* then the fields in the order of the per-variant table: the timestamp is
\* the last field of each but LeaseCancel, where the leasing transaction
\* id follows it.
C2_FieldOrder ==
    (req.kind \in {"LeaseTxReq", "LeaseCancelTxReq", "RegCtrtTxReq",
                   "ExecCtrtFuncTxReq", "DBPutTxReq"} /\ IsOk(dts)) =>
        LET b == dts.val
            fee == BE(req.fee.data.mag, 8)
            ts == BE(req.timestamp.data.mag, 8)
            scale == <<0, 100>>
        IN  CASE req.kind = "LeaseTxReq" ->
                    b = <<3>> \o req.supernode_addr.bytes
                        \o BE(req.amount.data.mag, 8) \o fee \o scale \o ts
              [] req.kind = "LeaseCancelTxReq" ->
                    b = <<4>> \o fee \o scale \o ts \o req.leasing_tx_id.bytes
              [] req.kind = "RegCtrtTxReq" ->
                    b = <<8>>
                        \o U16(Len(req.ctrt_meta.serialized)) \o req.ctrt_meta.serialized
                        \o U16(Len(req.data_stack.serialized)) \o req.data_stack.serialized
                        \o U16(Len(req.description.data)) \o EncodeText(req.description.data)
                        \o fee \o scale \o ts
              [] req.kind = "ExecCtrtFuncTxReq" ->
                    b = <<9>> \o req.ctrt_id.bytes \o req.func_id.serialized
                        \o U16(Len(req.data_stack.serialized)) \o req.data_stack.serialized
                        \o U16(Len(req.attachment.data)) \o EncodeText(req.attachment.data)
                        \o fee \o scale \o ts
              [] req.kind = "DBPutTxReq" ->
                    b = <<10>> \o req.db_key.serialized \o req.data.serialized
                        \o fee \o scale \o ts

\* Witness of C2: a LeaseCancel request has been serialized, and the last
\* bytes of the result are the leasing transaction id.
C2_Witness ==
    /\ req.kind = "LeaseCancelTxReq"
    /\ IsOk(dts)
    /\ SubSeq(dts.val, Len(dts.val) - 31, Len(dts.val)) = TX_ID_X

FeePos(r, b) ==
    CASE r.kind = "PaymentTxReq" -> 18
      [] r.kind = "LeaseTxReq" -> 2 + Len(r.supernode_addr.bytes) + 8
      [] r.kind = "LeaseCancelTxReq" -> 2
      [] OTHER -> Len(b) - 17

\* C4: in every variant and for every fee, the two bytes right after the
\* 8-byte fee field of the signing bytes are 0x00 0x64, and the broadcast
\* payload's feeScale is 100.
C4_FeeScale ==
    /\ IsOk(dts) =>
          LET b == dts.val
              p == FeePos(req, b)
          IN  /\ U64At(b, p) = req.fee.data.mag
              /\ SubSeq(b, p + 8, p + 9) = <<0, 100>>
    /\ IsOk(payload) => payload.val.feeScale = 100

\* Witness of C4: a request whose fee is 2^64 - 1 has been serialized and
\* projected to its payload.
C4_Witness ==
    /\ req # NoReq
    /\ req.fee.data = INT_U64_MAX
    /\ IsOk(dts)
    /\ IsOk(payload)

\* The keys of the broadcast payload of each kind (specification, section 6).
PayloadKeys(kind) ==
    CASE kind = "PaymentTxReq" ->
            {"senderPublicKey", "recipient", "amount", "fee", "feeScale",
             "timestamp", "attachment", "signature"}
      [] kind = "LeaseTxReq" ->
            {"senderPublicKey", "recipient", "amount", "fee", "feeScale",
             "timestamp", "signature"}
      [] kind = "LeaseCancelTxReq" ->
            {"senderPublicKey", "txId", "fee", "feeScale", "timestamp", "signature"}
      [] kind = "RegCtrtTxReq" ->
            {"senderPublicKey", "contract", "initData", "description", "fee",
             "feeScale", "timestamp", "signature"}
      [] kind = "ExecCtrtFuncTxReq" ->
            {"senderPublicKey", "contractId", "functionIndex", "functionData",
             "attachment", "fee", "feeScale", "timestamp", "signature"}
      [] kind = "DBPutTxReq" ->
            {"senderPublicKey", "dbKey", "dataType", "data", "fee", "feeScale",
             "timestamp", "signature"}

\* C5: the broadcast payload of each kind has exactly the keys listed for
\* that kind, no key more and no key fewer.
C5_PayloadKeys ==
    IsOk(payload) => DOMAIN payload.val = PayloadKeys(req.kind)

\* Witness of C5: a LeaseCancel request has been projected to its payload.
C5_Witness ==
    /\ req.kind = "LeaseCancelTxReq"
    /\ IsOk(payload)
    /\ "txId" \in DOMAIN payload.val

\* C6 (as claimed): in every broadcast payload, each value that is not one
\* of the integers amount, fee, feeScale, timestamp, functionIndex is the
\* base58 text of the corresponding bytes; this includes the
\* RegisterContract description and the DBPut dbKey and data.
C6_ValuesAreBase58 ==
    IsOk(payload) =>
        LET v == payload.val
        IN  /\ \E kp \in KeyPairInputs : v.senderPublicKey = b58encode(kp.pub.bytes)
            /\ v.signature.b58_of.len = SIG_BYTES_LEN
            /\ CASE req.kind = "PaymentTxReq" ->
                        /\ v.recipient = b58encode(req.recipient.bytes)
                        /\ v.attachment = b58encode(EncodeText(req.attachment.data))
                  [] req.kind = "LeaseTxReq" ->
                        v.recipient = b58encode(req.supernode_addr.bytes)
                  [] req.kind = "LeaseCancelTxReq" ->
                        v.txId = b58encode(req.leasing_tx_id.bytes)
                  [] req.kind = "RegCtrtTxReq" ->
                        /\ v.contract = b58encode(req.ctrt_meta.serialized)
                        /\ v.initData = b58encode(req.data_stack.serialized)
                        /\ v.description = b58encode(EncodeText(req.description.data))
                  [] req.kind = "ExecCtrtFuncTxReq" ->
                        /\ v.contractId = b58encode(req.ctrt_id.bytes)
                        /\ v.functionData = b58encode(req.data_stack.serialized)
                        /\ v.attachment = b58encode(EncodeText(req.attachment.data))
                  [] req.kind = "DBPutTxReq" ->
                        /\ v.dbKey = b58encode(EncodeText(req.db_key.data.data))
                        /\ v.data = b58encode(EncodeText(req.data.data.data))

\* C7 (as claimed): sign raises InvalidKeyError whenever the private key
\* does not have the required length, and nothing else for any message;
\* with a well-formed key it returns a 64-byte signature.
C7_InvalidKeyError ==
    \A i \in 1..Len(signLog) :
        LET e == signLog[i]
        IN  IF Len(e.pri_key) = KEY_BYTES_LEN
            THEN IsOk(e.res) /\ e.res.val.len = 64
            ELSE e.res.exc = "InvalidKeyError"

C9_VerifyIsTotal ==
    \A i \in 1..Len(verifyLog) :
        LET e == verifyLog[i]
            malformed == Len(e.pub_key) # KEY_BYTES_LEN \/ e.sig.len # SIG_BYTES_LEN
        IN  /\ IsOk(e.res)
            /\ e.res.val \in BOOLEAN
            /\ (malformed \/ e.msg \in SingleBitFlips(e.sig.msg)) => e.res.val = FALSE
            /\ (/\ ~malformed
                /\ e.sig \in Signatures
                /\ e.msg = e.sig.msg
                /\ e.pub_key = gen_pub_key(e.sig.pri)) => e.res.val = TRUE

\* C10 (as claimed): once a constructor has returned, data_to_sign of the
\* request returns bytes and never raises.
C10_DataToSignNeverRaises ==
    /\ req # NoReq => IsOk(data_to_sign(req))
    /\ dts # NotRun => IsOk(dts)

\* C11: a request is immutable once constructed: no operation - reading
\* data_to_sign, signing, projecting to a payload, an Account method that
\* submits it - changes any of its fields, the request the node API's
\* payload was made from is the request as constructed, and data_to_sign
\* read at any two points of the request's life returns the same bytes.
C11_RequestImmutable ==
    [][(req # NoReq /\ req' # NoReq) =>
           /\ req' = req
           /\ data_to_sign(req') = data_to_sign(req)
           /\ (dts # NotRun /\ dts' # NotRun) => dts' = dts
           /\ \A i \in 1..Len(call'.sent) : call'.sent[i].req = req]_vars

\* Witness of C11: data_to_sign has been read of a request that an Account
\* method has signed, projected and handed to the node API.
C11_Witness ==
    /\ call.pc = "return"
    /\ Len(call.sent) = 1
    /\ req # NoReq
    /\ call.sent[1].req = req
    /\ IsOk(dts)
    /\ dts.val = call.sent[1].payload.signature.b58_of.msg

\* The Account methods named pay, lease, cancel_lease and db_put.
PublicMethods == {"pay", "lease", "cancel_lease", "db_put"}

\* C13: a call of Account.pay, lease, cancel_lease or db_put hands at most
\* one payload to the node API and makes no second attempt; when the node
\* API fails, the call ends with that very exception - it is not caught,
\* not replaced - and returns no response.
C13_OneAttemptErrorsPropagate ==
    call.method \in PublicMethods =>
        /\ Len(call.sent) <= 1
        /\ (call.pc = "return" /\ Len(call.sent) = 1) =>
               /\ call.res = call.sent[1].answer
               /\ ~IsOk(call.sent[1].answer) =>
                      (~IsOk(call.res) /\ call.res.exc = call.sent[1].answer.exc)

\* Witness of C13: the node API raised on the one payload a pay call handed
\* it, and the call ended with that exception.
C13_Witness ==
    /\ call.method = "pay"
    /\ call.pc = "return"
    /\ Len(call.sent) = 1
    /\ call.sent[1].answer = Raise("NetworkError")
    /\ call.res = Raise("NetworkError")

\* Whether the text is an address with a sound checksum on the given chain.
IsAddrOn(text, chain) ==
    /\ IsOk(Addr_of_str(text))
    /\ IsOk(Addr_must_on(Addr_of_str(text).val, chain))

\* C14: in pay and lease the recipient address is validated against the
\* account's chain before any request is built, signed or broadcast: with
\* an address of a bad checksum or of another chain the call fails at this
\* point - with the validation's own error - and no request exists, nothing
\* has been signed and no payload has been handed to the node API.
C14_AddrCheckedFirst ==
    call.method \in {"pay", "lease"} =>
        /\ (req # NoReq \/ payload # NotRun \/ call.sent # <<>>) =>
               IsAddrOn(call.args.recipient, Self._chain)
        /\ ~IsAddrOn(call.args.recipient, Self._chain) =>
               /\ call.pc \in {"validate", "return"}
               /\ req = NoReq
               /\ payload = NotRun
               /\ call.sent = <<>>
               /\ call.pc = "return" =>
                      call.res = (IF IsOk(Addr_of_str(call.args.recipient))
                                  THEN Raise("ChainMismatchError")
                                  ELSE Raise("ValidationError"))

\* Witness of C14: a pay call to an address of the other chain has failed.
C14_Witness ==
    /\ call.method = "pay"
    /\ call.pc = "return"
    /\ IsOk(Addr_of_str(call.args.recipient))
    /\ call.res = Raise("ChainMismatchError")
    /\ call.sent = <<>>

\* C15: after a successful pay of amount a from account A to a different
\* account B with the default fee, A's balance is its balance before minus
\* a minus PaymentFee.DEFAULT and B's balance is its balance before plus a;
\* the one payload handed to the node carries exactly the requested amount,
\* the default fee and B's address.
C15_PayMovesAmount ==
    (call.method = "pay" /\ call.pc = "return" /\ IsOk(call.res)) =>
        LET A == Self.addr.data
            B == call.args.recipient
            a == call.args.amount * VSYS_UNIT
        IN  /\ A # B
            /\ Bal(node.bal, A) = Bal(call.before.bal, A) - a - PaymentFee_DEFAULT
            /\ Bal(node.bal, B) = Bal(call.before.bal, B) + a
            /\ Len(call.sent) = 1
            /\ call.sent[1].api = "broadcast_payment"
            /\ IntOf(call.sent[1].payload.amount) = a
            /\ IntOf(call.sent[1].payload.fee) = PaymentFee_DEFAULT
            /\ call.sent[1].payload.recipient = B
            /\ b58decode(call.sent[1].payload.recipient) = Ok(ACNT1.obj.addr.bytes)

\* Witness of C15: acnt0.pay(acnt1.addr, 5) has succeeded.
C15_Witness ==
    /\ call.method = "pay"
    /\ call.pc = "return"
    /\ IsOk(call.res)
    /\ call.self = "acnt0"
    /\ call.args.recipient = ACNT1.obj.addr.data
    /\ call.args.amount = 5
    /\ Bal(node.bal, ACNT1.obj.addr.data) > Bal(call.before.bal, ACNT1.obj.addr.data)

\* C16: a lease of amount a followed by cancel_lease with the id the lease
\* returned: the cancel payload's txId is that id and its fee the default
\* cancel fee, and after the successful cancel the account's effective
\* balance is the one before the cancel plus a minus
\* LeasingCancelFee.DEFAULT.
C16_CancelRestoresLease ==
    call.method = "cancel_lease" =>
        /\ \A i \in 1..Len(call.sent) :
               /\ call.sent[i].api = "broadcast_cancel"
               /\ call.sent[i].payload.txId = call.args.leasing_tx_id
               /\ IntOf(call.sent[i].payload.fee) = LeasingCancelFee_DEFAULT
        /\ (call.pc = "return" /\ IsOk(call.res)) =>
               /\ Len(call.sent) = 1
               /\ \E l \in call.before.leases :
                      /\ l.id = call.args.leasing_tx_id
                      /\ l.lessor = Self.addr.data
                      /\ l \notin node.leases
                      /\ Bal(node.eff, Self.addr.data) =
                             Bal(call.before.eff, Self.addr.data) + l.amount
                                 - LeasingCancelFee_DEFAULT

\* Witness of C16: acnt0 has leased 5 VSYS and then cancelled the lease by
\* the id the lease call returned.
C16_Witness ==
    /\ call.method = "cancel_lease"
    /\ call.pc = "return"
    /\ IsOk(call.res)
    /\ \E l \in call.before.leases :
           /\ l.id = call.args.leasing_tx_id
           /\ l.amount = 5 * VSYS_UNIT
    /\ Bal(node.eff, Self.addr.data) = INIT_BAL - LeasingFee_DEFAULT - LeasingCancelFee_DEFAULT

\* C17 (as claimed): the properties wallet, nonce and acnt_seed_hash
\* return a value and never fail, for every Account - one made by
\* Wallet.get_account and one made from a private key alone - and the
\* nonce of the account Wallet.get_account(chain, n) returned is n.
C17_PropertiesNeverFail ==
    \A i \in 1..Len(propLog) :
        LET e == propLog[i]
        IN  /\ IsOk(e.res)
            /\ (e.prop = "nonce" /\ acnts[e.acnt].via = "get_account") =>
                   e.res.val = acnts[e.acnt].nonce

\* C12 (as claimed): no state is shared between two requests: whatever the
\* interleaving of the threads that build, serialize and sign them, each
\* request's signing bytes and payload are those of the request processed
\* alone, and two requests constructed without an explicit fee or
\* attachment do not hold the same default fee or attachment instance.
C12_NoSharedState ==
    \A id \in ThreadIds :
        LET t == threads[id]
        IN  t.pc # "idle" =>
              /\ t.dts # NotRun => t.dts = data_to_sign(ReqAlone(t))
              /\ t.payload # NotRun =>
                     t.payload = to_broadcast_payload(ReqAlone(t), KeyPairOf(PRI_A), t.rand)
              /\ \A other \in ThreadIds \ {id} :
                     LET u == threads[other]
                     IN  u.pc # "idle" =>
                           /\ t.fee # u.fee
                           /\ t.attachment # u.attachment

\* The signing bytes read back field by field, as the node reads them: by
\* position, each variable-length field by its 2-byte length prefix.  exact
\* tells whether the fields make up the whole of the bytes.
ParseSigned(b) ==
    CASE b[1] = PAYMENT ->
            LET n == U16At(b, 54)
            IN  [timestamp |-> U64At(b, 2), amount |-> U64At(b, 10),
                 fee |-> U64At(b, 18), feeScale |-> U16At(b, 26),
                 recipient |-> SubSeq(b, 28, 53),
                 attachment |-> SubSeq(b, 56, 55 + n),
                 exact |-> Len(b) = 55 + n]
      [] b[1] = LEASE ->
            [recipient |-> SubSeq(b, 2, 27), amount |-> U64At(b, 28),
             fee |-> U64At(b, 36), feeScale |-> U16At(b, 44),
             timestamp |-> U64At(b, 46), exact |-> Len(b) = 53]
      [] b[1] = LEASE_CANCEL ->
            [fee |-> U64At(b, 2), feeScale |-> U16At(b, 10),
             timestamp |-> U64At(b, 12), txId |-> SubSeq(b, 20, 51),
             exact |-> Len(b) = 51]
      [] b[1] = REGISTER_CONTRACT ->
            LET n1 == U16At(b, 2)
                p2 == 4 + n1
                n2 == U16At(b, p2)
                p3 == p2 + 2 + n2
                n3 == U16At(b, p3)
                p4 == p3 + 2 + n3
            IN  [contract |-> SubSeq(b, 4, 3 + n1),
                 initData |-> SubSeq(b, p2 + 2, p2 + 1 + n2),
                 description |-> SubSeq(b, p3 + 2, p3 + 1 + n3),
                 fee |-> U64At(b, p4), feeScale |-> U16At(b, p4 + 8),
                 timestamp |-> U64At(b, p4 + 10), exact |-> Len(b) = p4 + 17]
      [] b[1] = EXECUTE_CONTRACT_FUNCTION ->
            LET n1 == U16At(b, 30)
                p2 == 32 + n1
                n2 == U16At(b, p2)
                p3 == p2 + 2 + n2
            IN  [contractId |-> SubSeq(b, 2, 27), functionIndex |-> U16At(b, 28),
                 functionData |-> SubSeq(b, 32, 31 + n1),
                 attachment |-> SubSeq(b, p2 + 2, p2 + 1 + n2),
                 fee |-> U64At(b, p3), feeScale |-> U16At(b, p3 + 8),
                 timestamp |-> U64At(b, p3 + 10), exact |-> Len(b) = p3 + 17]
      [] b[1] = DB_PUT ->
            LET n1 == U16At(b, 2)
                p2 == 4 + n1
                n2 == U16At(b, p2)
                p3 == p2 + 2 + n2
            IN  [dbKey |-> SubSeq(b, 4, 3 + n1),
                 data |-> SubSeq(b, p2 + 2, p2 + 1 + n2),
                 fee |-> U64At(b, p3), feeScale |-> U16At(b, p3 + 8),
                 timestamp |-> U64At(b, p3 + 10), exact |-> Len(b) = p3 + 17]

\* Whether payload field f, a base58 text, denotes the bytes d.
DenotesBytes(p, f, d) == b58decode(p[f]) = Ok(d)

\* Whether the payload's fields denote the values v read from signing bytes.
SameValues(p, v) ==
    /\ v.exact
    /\ p.fee.mag = v.fee
    /\ p.feeScale = v.feeScale
    /\ p.timestamp.mag = v.timestamp
    /\ "amount" \in DOMAIN v => p.amount.mag = v.amount
    /\ "recipient" \in DOMAIN v => DenotesBytes(p, "recipient", v.recipient)
    /\ "txId" \in DOMAIN v => DenotesBytes(p, "txId", v.txId)
    /\ "attachment" \in DOMAIN v => DenotesBytes(p, "attachment", v.attachment)
    /\ "contract" \in DOMAIN v => DenotesBytes(p, "contract", v.contract)
    /\ "initData" \in DOMAIN v => DenotesBytes(p, "initData", v.initData)
    /\ "description" \in DOMAIN v => EncodeText(p.description) = v.description
    /\ "contractId" \in DOMAIN v => DenotesBytes(p, "contractId", v.contractId)
    /\ "functionIndex" \in DOMAIN v => p.functionIndex = v.functionIndex
    /\ "functionData" \in DOMAIN v => DenotesBytes(p, "functionData", v.functionData)
    /\ "dbKey" \in DOMAIN v => EncodeText(p.dbKey) = v.dbKey
    /\ "data" \in DOMAIN v => EncodeText(p.data) = v.data

====
